---- MODULE Spec2Model ----
(***************************************************************************)
(* Model of plex_updater.py: one run of main().                            *)
(*                                                                         *)
(* Strings are sequences of one-character strings, so that split('.'),     *)
(* lower(), splitext(), re.match(..., re.I) and Python's string ordering   *)
(* are computed and not assumed.  Configured patterns are literal          *)
(* (metacharacter-free) regular expressions, for which re.match with re.I  *)
(* is a case-insensitive prefix test.                                      *)
(***************************************************************************)
EXTENDS Integers, Sequences, FiniteSets, TLC

VARIABLES
    pc,               \* the call main() makes next, "done" after the process ended
    config, args,     \* the dicts get_config and get_args returned
    token,            \* main: token
    subscription,     \* get_token: subscription, Unset while not assigned
    server_xml,       \* get_server_info: the server matched by the first call
    servers_seen,     \* get_server_info: the servers its loop went through
    server,           \* main: server
    downloads,        \* get_download_info: downloads
    download_os,      \* get_download_info: download_os
    download_release, \* get_download_info: download_release
    download,         \* main: download
    package,          \* main: package
    new_server_info,  \* main: new_server_info
    files,            \* the files that exist in the download folder
    start,            \* config, args and files as the run found them
    previous,         \* what the run before this one left, None in a first run
    calls,            \* the external operations performed so far, in order
    outcome,          \* how the run ended
    exit_code         \* the status the process ended with

vars == <<pc, config, args, token, subscription, server_xml, servers_seen, server,
          downloads, download_os, download_release, download, package,
          new_server_info, files, start, previous, calls, outcome,
          exit_code>>

\* Python's None, where an object is expected
None == [ none |-> TRUE ]
\* a local variable that was not assigned
Unset == [ unset |-> TRUE ]
\* no value, where a plain string is expected
Nil == "None"
\* the process has not ended yet
Running == -1

(***************************************************************************)
(* Bounds                                                                  *)
(***************************************************************************)
\* largest number of servers in one inventory answer
MaxServers == 2

(***************************************************************************)
(* Strings                                                                 *)
(***************************************************************************)
UpperChars == <<"A","B","C","D","E","I","L","M","N","P","R","S","U","X">>
LowerChars == <<"a","b","c","d","e","i","l","m","n","p","r","s","u","x">>

\* str.lower() on one character
lower_char(c) ==
    IF \E i \in 1..Len(UpperChars) : UpperChars[i] = c
    THEN LowerChars[CHOOSE i \in 1..Len(UpperChars) : UpperChars[i] = c]
    ELSE c

\* str.lower()
lower(s) == [i \in 1..Len(s) |-> lower_char(s[i])]

\* code point order of the characters that occur in version strings
\* ('.' < '0' < ... < '9' < 'x')
OrdChars == <<".","0","1","2","3","4","5","6","7","8","9","x">>
ord(c) == CHOOSE i \in 1..Len(OrdChars) : OrdChars[i] = c

\* Python's str < str : lexicographic by code point, a proper prefix is smaller
RECURSIVE str_lt(_, _)
str_lt(a, b) ==
    IF b = <<>> THEN FALSE
    ELSE IF a = <<>> THEN TRUE
    ELSE IF a[1] = b[1] THEN str_lt(Tail(a), Tail(b))
    ELSE ord(a[1]) < ord(b[1])

\* str.split('.') : a list of the pieces between the dots; ''.split('.') = ['']
RECURSIVE split_acc(_, _, _)
split_acc(s, cur, acc) ==
    IF s = <<>> THEN Append(acc, cur)
    ELSE IF s[1] = "." THEN split_acc(Tail(s), <<>>, Append(acc, cur))
    ELSE split_acc(Tail(s), Append(cur, s[1]), acc)
split(s) == split_acc(s, <<>>, <<>>)

\* re.match(pattern, string, re.I) for a literal pattern
re_match_I(pattern, string) ==
    /\ Len(pattern) <= Len(string)
    /\ lower(SubSeq(string, 1, Len(pattern))) = lower(pattern)

\* os.path.splitext(p)[1] : from the last dot of the last path component,
\* empty when that component has no dot or only leading dots
LastIndex(p, c) ==
    IF \E i \in 1..Len(p) : p[i] = c
    THEN CHOOSE i \in 1..Len(p) : p[i] = c /\ \A j \in (i+1)..Len(p) : p[j] # c
    ELSE 0
splitext_ext(p) ==
    LET sep == LastIndex(p, "/")
        dot == LastIndex(p, ".")
    IN  IF dot > sep /\ \E k \in (sep+1)..(dot-1) : p[k] # "."
        THEN SubSeq(p, dot, Len(p))
        ELSE <<>>

(***************************************************************************)
(* Literal strings of the program and of the modelled environment          *)
(***************************************************************************)
str_error  == <<"e","r","r","o","r">>
str_linux  == <<"l","i","n","u","x">>
str_deb    == <<".","d","e","b">>
str_rpm    == <<".","r","p","m">>
str_pms    == <<"p","m","s","_">>
str_pass   == "pass"
str_plexpass == "plexpass"
DPKG_EXECUTABLE == "/usr/bin/dpkg"
RPM_EXECUTABLE  == "/usr/bin/rpm"
GraceSeconds == 30

v1_9_0  == <<"1",".","9",".","0">>
v1_9_1  == <<"1",".","9",".","1">>
v1_10_0 == <<"1",".","1","0",".","0">>
v1_9    == <<"1",".","9">>
v1_x    == <<"1",".","x">>

\* version strings the provider reports for servers and for releases
ServerVersions == {v1_9_0, v1_9_1, v1_10_0}
DownloadVersions == {v1_9_0, v1_9_1, v1_10_0, v1_9, v1_x}

(***************************************************************************)
(* Python dicts with insertion order: sequences of [key, value] entries    *)
(***************************************************************************)
has_key(d, k) == \E i \in 1..Len(d) : d[i].key = k
get(d, k) == d[CHOOSE i \in 1..Len(d) : d[i].key = k].value

(***************************************************************************)
(* Configuration and command line (get_args, get_config)                   *)
(***************************************************************************)
ClientId == "client-1"
OtherId  == "client-2"
Folder   == <<"/","d">>

SystemTypes  == { <<"n","a","s">>, <<"N","a","s">> }
SystemOses   == { <<"L","i","n","u","x">>, <<"l","i","n">> }
SystemBuilds == { <<"R","P","M">> }

\* has_system_build: 'system_build' in config.keys()
Configs ==
    [ client : {ClientId}, folder : {Folder}, plex_pass : BOOLEAN,
      system_type : SystemTypes, system_os : SystemOses,
      has_system_build : {TRUE}, system_build : SystemBuilds,
      remove_completed : BOOLEAN ]
    \cup
    [ client : {ClientId}, folder : {Folder}, plex_pass : BOOLEAN,
      system_type : SystemTypes, system_os : SystemOses,
      has_system_build : {FALSE}, system_build : { <<>> },
      remove_completed : BOOLEAN ]

Args == [ skip_install : BOOLEAN, check_only : BOOLEAN ]

\* a package of an earlier run that may already lie in the download folder
StalePackage == Folder \o <<"/">> \o str_pms \o v1_9_1 \o str_deb

(***************************************************************************)
(* Answers of the provider                                                 *)
(***************************************************************************)
Subscriptions ==
    { None } \cup [ active : BOOLEAN, features : { {}, {str_pass} } ]

SignInResponses ==
    { [ error |-> "Invalid email, username, or password.", user |-> None ] }
    \cup { [ error |-> Nil,
             user |-> [ authentication_token |-> "tok", subscription |-> s ] ]
           : s \in Subscriptions }

Servers ==
    [ machineIdentifier : {ClientId}, owned : {"0", "1"},
      updatedAt : {1}, version : ServerVersions ]
    \cup [ machineIdentifier : {OtherId}, owned : {"1"},
           updatedAt : {1}, version : {v1_9_1} ]

RECURSIVE SeqsUpTo(_, _)
SeqsUpTo(S, n) ==
    IF n = 0 THEN { <<>> }
    ELSE LET shorter == SeqsUpTo(S, n - 1)
         IN  shorter \cup { Append(q, x) : q \in shorter, x \in S }

Inventories == SeqsUpTo(Servers, MaxServers)

Release(label, url) == [ label |-> label, url |-> url ]
rel_deb == Release(<<"d","e","b","6","4">>, <<"h","/","a",".","d","e","b">>)
rel_rpm == Release(<<"r","p","m","6","4">>, <<"h","/","a",".","r","p","m">>)
rel_DEB == Release(<<"D","e","b","3","2">>, <<"h","/","b",".","D","E","B">>)
rel_zip == Release(<<"z","i","p">>, <<"h","/","a",".","z","i","p">>)

Os(name, release_date, version, releases) ==
    [ key |-> name,
      value |-> [ name |-> name, release_date |-> release_date,
                  version |-> version, releases |-> releases ] ]

os_Linux(v)    == Os(<<"L","i","n","u","x">>, 1, v, <<rel_deb, rel_rpm>>)
os_LinuxArm(v) == Os(<<"l","i","n","u","x","A","r","m">>, 2, v, <<rel_zip, rel_DEB>>)
os_MacOS(v)    == Os(<<"M","a","c","O","S">>, 3, v, <<>>)

\* the downloads catalogs the provider may answer with
Catalogs ==
    { << [ key |-> str_error, value |-> "Unauthorized" ] >> }
    \cup { << [ key |-> <<"n","a","s">>, value |-> <<os_Linux(v), os_LinuxArm(v1_9_0)>> ] >>
           : v \in DownloadVersions }
    \cup { << [ key |-> <<"p","c">>, value |-> <<os_MacOS(v1_9_0)>> ],
              [ key |-> <<"n","a","s">>, value |-> <<os_LinuxArm(v), os_Linux(v1_10_0)>> ] >>
           : v \in DownloadVersions }
    \cup { << [ key |-> <<"n","a","s">>, value |-> <<os_MacOS(v1_9_1)>> ] >>,
           << [ key |-> <<"N","a","s">>, value |-> <<os_Linux(v1_10_0)>> ] >> }

(***************************************************************************)
(* State after get_args() and get_config()                                 *)
(***************************************************************************)
Init ==
    /\ pc = "get_token"
    /\ config \in Configs
    /\ args \in Args
    /\ token = Nil
    /\ server = None
    /\ download = None
    /\ package = <<>>
    /\ files \in { {}, {StalePackage} }
    /\ downloads = <<>>
    /\ download_os = None
    /\ download_release = None
    /\ new_server_info = None
    /\ subscription = Unset
    /\ server_xml = None
    /\ servers_seen = <<>>
    /\ start = [ config |-> config, args |-> args, files |-> files ]
    /\ previous = None
    /\ calls = <<>>
    /\ outcome = Nil
    /\ exit_code = Running

\* an external operation the run performed and how it answered
Call(op, arg, result) == [ op |-> op, arg |-> arg, result |-> result ]

\* sys.exit(message) : the process ends with status 1
sys_exit_status == 1
\* main() returns : the process ends with status 0
return_status == 0

\* variant: the failure is reported and main() returns
Fail_returns(o) == pc' = "done" /\ outcome' = o /\ exit_code' = return_status

\* variant: the failure is reported and the step is tried again
Fail_retries(o) == pc' = pc /\ outcome' = o /\ exit_code' = sys_exit_status

Fail(o) == pc' = "done" /\ outcome' = o /\ exit_code' = sys_exit_status
Return(o) == pc' = "done" /\ outcome' = o /\ exit_code' = return_status

(***************************************************************************)
(* A run that follows another one at once finds the provider as the run    *)
(* before left it: the same account, the same server, the same catalog.    *)
(***************************************************************************)
same_account(raised, sign_in_json) ==
    IF previous = None THEN TRUE
    ELSE /\ ~ raised
         /\ sign_in_json.error = Nil
         /\ start.config.plex_pass =>
               sign_in_json.user.subscription = previous.subscription
same_server(raised, server_resp_xml, i) ==
    IF previous = None THEN TRUE
    ELSE ~ raised /\ i # 0 /\ server_resp_xml[i] = previous.server_xml
same_catalog(raised, downloads_json) ==
    IF previous = None THEN TRUE
    ELSE ~ raised /\ downloads_json = previous.downloads

(***************************************************************************)
(* get_token                                                               *)
(***************************************************************************)
\* variant: an inactive subscription counts as long as it lists 'pass'
no_valid_plex_pass_and(sub) ==
    \/ sub = None
    \/ (~ sub.active /\ str_pass \notin sub.features)

\* the test that disables the Plex Pass feed
no_valid_plex_pass(sub) ==
    \/ sub = None
    \/ ~ sub.active
    \/ str_pass \notin sub.features

main_get_token ==
    /\ pc = "get_token"
    /\ \E raised \in BOOLEAN, sign_in_json \in SignInResponses :
         /\ same_account(raised, sign_in_json)
         /\ calls' = Append(calls, Call("sign_in", config.client,
                                         IF raised THEN "raised" ELSE "answered"))
         /\ IF raised
            THEN /\ Fail("TransportError")
                 /\ UNCHANGED <<config, token, subscription>>
            ELSE IF sign_in_json.error # Nil
            THEN /\ Fail("AuthRejected")
                 /\ UNCHANGED <<config, token, subscription>>
            ELSE /\ subscription' =
                      IF config.plex_pass
                      THEN sign_in_json.user.subscription
                      ELSE subscription
                 /\ config' =
                      IF config.plex_pass
                         /\ no_valid_plex_pass(sign_in_json.user.subscription)
                      THEN [config EXCEPT !.plex_pass = FALSE]
                      ELSE config
                 /\ token' = sign_in_json.user.authentication_token
                 /\ pc' = "get_server_info"
                 /\ UNCHANGED <<outcome, exit_code>>
    /\ UNCHANGED <<servers_seen, args, server_xml, server, download, package, files,
                   downloads, download_os, download_release, new_server_info,
                   start, previous>>

(***************************************************************************)
(* get_server_info                                                         *)
(***************************************************************************)
\* variant: the loop lacks its break and keeps the last match
RECURSIVE find_server_no_break(_, _, _)
find_server_no_break(server_resp_xml, client, i) ==
    IF i > Len(server_resp_xml) THEN 0
    ELSE LET later == find_server_no_break(server_resp_xml, client, i + 1)
         IN  IF later # 0 THEN later
             ELSE IF server_resp_xml[i].machineIdentifier = client THEN i
             ELSE 0

\* the loop over the inventory: index of the first server whose
\* machineIdentifier is the configured client, 0 when the loop ends without
RECURSIVE find_server(_, _, _)
find_server(server_resp_xml, client, i) ==
    IF i > Len(server_resp_xml) THEN 0
    ELSE IF server_resp_xml[i].machineIdentifier = client THEN i
    ELSE find_server(server_resp_xml, client, i + 1)

\* the servers the loop went through when it ended at index i, all of them
\* when it ended without a match
loop_seen(server_resp_xml, i) ==
    IF i = 0 THEN server_resp_xml ELSE SubSeq(server_resp_xml, 1, i)

\* variant: the ownership flag does not force skip_install
owner_skip_install_unforced(found, skip_install) == skip_install

\* args.skip_install after the ownership test
owner_skip_install(found, skip_install) ==
    IF found.owned = "0" THEN TRUE ELSE skip_install

\* the dict get_server_info returns
server_info(found) ==
    [ updated |-> found.updatedAt, version |-> found.version ]

main_get_server_info ==
    /\ pc = "get_server_info"
    /\ \E raised \in BOOLEAN, server_resp_xml \in Inventories :
         LET i == find_server(server_resp_xml, config.client, 1) IN
         /\ same_server(raised, server_resp_xml, i)
         /\ calls' = Append(calls, Call("servers", token,
                                         IF raised THEN "raised" ELSE "answered"))
         /\ servers_seen' = IF raised THEN <<>> ELSE loop_seen(server_resp_xml, i)
         /\ IF raised
            THEN /\ Fail("TransportError")
                 /\ UNCHANGED <<args, server, server_xml>>
            ELSE IF i = 0
            THEN /\ Fail("ServerNotFound")
                 /\ UNCHANGED <<args, server, server_xml>>
            ELSE /\ server_xml' = server_resp_xml[i]
                 /\ args' = [args EXCEPT !.skip_install =
                               owner_skip_install(server_resp_xml[i], @)]
                 /\ server' = server_info(server_resp_xml[i])
                 /\ pc' = "get_download_info"
                 /\ UNCHANGED <<outcome, exit_code>>
    /\ UNCHANGED <<config, token, subscription, download, package, files,
                   downloads, download_os, download_release, new_server_info,
                   start, previous>>

(***************************************************************************)
(* get_download_info, check_system_build                                   *)
(***************************************************************************)
\* params of the downloads request
download_params(plex_pass) == IF plex_pass THEN str_plexpass ELSE "public"

\* variant: the loop lacks its break and keeps the last match
RECURSIVE find_os_no_break(_, _, _)
find_os_no_break(systems, system_os, i) ==
    IF i > Len(systems) THEN 0
    ELSE LET later == find_os_no_break(systems, system_os, i + 1)
         IN  IF later # 0 THEN later
             ELSE IF re_match_I(system_os, systems[i].key) THEN i
             ELSE 0

\* the loop over systems.keys(): index of the first OS identifier the
\* configured system_os matches, 0 when the loop ends without
RECURSIVE find_os(_, _, _)
find_os(systems, system_os, i) ==
    IF i > Len(systems) THEN 0
    ELSE IF re_match_I(system_os, systems[i].key) THEN i
    ELSE find_os(systems, system_os, i + 1)

\* the loop over download_os['releases']: index of the first release whose
\* label the configured system_build matches, 0 when the loop ends without
RECURSIVE find_release(_, _, _)
find_release(releases, system_build, i) ==
    IF i > Len(releases) THEN 0
    ELSE IF re_match_I(system_build, releases[i].label) THEN i
    ELSE find_release(releases, system_build, i + 1)

\* index of the release check_system_build returns; 0 : sys.exit,
\* -1 : IndexError on an empty release list
check_system_build(cfg, dl_os) ==
    IF ~ cfg.has_system_build
    THEN IF Len(dl_os.releases) = 0 THEN -1 ELSE 1
    ELSE find_release(dl_os.releases, cfg.system_build, 1)

\* the configured system type as it is looked up in the catalog
system_type_key(cfg) == lower(cfg.system_type)

\* variant: the link is that of the first release the OS entry lists
download_info_first_release(dl_os, dl_release) ==
    [ updated |-> dl_os.release_date, version |-> dl_os.version,
      link |-> dl_os.releases[1].url ]

\* the dict get_download_info returns
download_info(dl_os, dl_release) ==
    [ updated |-> dl_os.release_date, version |-> dl_os.version,
      link |-> dl_release.url ]

main_get_download_info ==
    /\ pc = "get_download_info"
    /\ \E raised \in BOOLEAN, downloads_json \in Catalogs :
         LET system_type == system_type_key(config)
             systems == get(downloads_json, system_type)
             o == find_os(systems, config.system_os, 1)
             r == check_system_build(config, systems[o].value)
         IN
         /\ same_catalog(raised, downloads_json)
         /\ servers_seen' = <<>>
         /\ calls' = Append(calls, Call("downloads", download_params(config.plex_pass),
                                         IF raised THEN "raised" ELSE "answered"))
         /\ IF raised
            THEN /\ Fail("TransportError")
                 /\ UNCHANGED <<download, downloads, download_os, download_release>>
            ELSE /\ downloads' = downloads_json
                 /\ IF has_key(downloads_json, str_error)
                    THEN /\ Fail("DownloadsError")
                         /\ UNCHANGED <<download, download_os, download_release>>
                    ELSE IF ~ has_key(downloads_json, system_type)
                    THEN /\ Fail("UnknownSystemType")
                         /\ UNCHANGED <<download, download_os, download_release>>
                    ELSE IF o = 0
                    THEN /\ Fail("UnknownSystemOs")
                         /\ UNCHANGED <<download, download_os, download_release>>
                    ELSE /\ download_os' = systems[o].value
                         /\ IF r = 0
                            THEN /\ Fail("UnknownSystemBuild")
                                 /\ UNCHANGED <<download, download_release>>
                            ELSE IF r = -1
                            THEN /\ Fail("IndexError")
                                 /\ UNCHANGED <<download, download_release>>
                            ELSE /\ download_release' = systems[o].value.releases[r]
                                 /\ download' = download_info(systems[o].value,
                                                    systems[o].value.releases[r])
                                 /\ pc' = "has_newer_version"
                                 /\ UNCHANGED <<outcome, exit_code>>
    /\ UNCHANGED <<config, args, token, subscription, server_xml, server,
                   package, files, new_server_info, start, previous>>

(***************************************************************************)
(* has_newer_version                                                       *)
(***************************************************************************)
\* the number of calls of compare_versions one comparison makes, the first
\* one and the one that finds a list empty included
RECURSIVE compare_versions_calls(_, _)
compare_versions_calls(server_, download_) ==
    IF server_ = <<>> \/ download_ = <<>> THEN 1
    ELSE IF Head(download_) = Head(server_)
         THEN 1 + compare_versions_calls(Tail(server_), Tail(download_))
         ELSE 1

\* variant: when one list runs out first, the longer download list is newer
RECURSIVE compare_versions_longer_wins(_, _)
compare_versions_longer_wins(server_, download_) ==
    IF server_ = <<>> THEN download_ # <<>>
    ELSE IF download_ = <<>> THEN FALSE
    ELSE LET s_int == Head(server_)
             d_int == Head(download_)
         IN  IF d_int = s_int
             THEN compare_versions_longer_wins(Tail(server_), Tail(download_))
             ELSE IF str_lt(s_int, d_int) THEN TRUE
             ELSE FALSE

\* the recursion on the two lists of components, compared as the strings
\* split() produced
RECURSIVE compare_versions(_, _)
compare_versions(server_, download_) ==
    IF server_ = <<>> \/ download_ = <<>> THEN FALSE
    ELSE LET s_int == Head(server_)
             d_int == Head(download_)
         IN  IF d_int = s_int
             THEN compare_versions(Tail(server_), Tail(download_))
             ELSE IF str_lt(s_int, d_int) THEN TRUE
             ELSE FALSE

has_newer_version(server_version, download_version) ==
    compare_versions(split(server_version), split(download_version))

\* variant: the two dicts are passed in the other order
new_version_available_swapped(srv, dl) ==
    has_newer_version(dl.version, srv.version)

\* main: the test that opens the update branch
new_version_available(srv, dl) ==
    has_newer_version(srv.version, dl.version)

\* variant: the check_only exit tests the other flag
bail_check_only_wrong_flag(a) == a.skip_install

\* main: bail when not downloading or installing
bail_check_only(a) == a.check_only

\* main: bail when only downloading
bail_skip_install(a) == a.skip_install

\* main: the test for a new version and the check_only exit
main_has_newer_version ==
    /\ pc = "has_newer_version"
    /\ IF new_version_available(server, download)
       THEN IF bail_check_only(args)
            THEN Return("CheckOnlyStop")
            ELSE pc' = "download_update" /\ UNCHANGED <<outcome, exit_code>>
       ELSE Return("UpToDate")
    /\ UNCHANGED <<servers_seen, config, args, token, subscription, server_xml, server,
                   download, package, files, downloads, download_os,
                   download_release, new_server_info, start, previous, calls>>

(***************************************************************************)
(* download_update                                                         *)
(***************************************************************************)
download_name(dl) == str_pms \o dl.version \o splitext_ext(dl.link)
\* os.path.join(config['folder'], download_name)
download_target(cfg, dl) == cfg.folder \o <<"/">> \o download_name(dl)

\* variant: a file already at the target path is left there
stale_removal_skipped(target, fs) == <<>>

\* the calls download_update makes before the fetch
stale_removal(target, fs) ==
    IF target \in fs THEN << Call("remove", target, "removed") >> ELSE <<>>

\* fetched: "written" the file is there afterwards; "missing" retrieve
\* returned and os.path.exists is false; "raised" retrieve raised
main_download_update ==
    /\ pc = "download_update"
    /\ \E fetched \in {"written", "missing", "raised"} :
         LET target == download_target(config, download) IN
         /\ calls' = calls \o stale_removal(target, files)
                           \o << Call("retrieve", target, fetched) >>
         /\ files' = IF fetched = "written"
                     THEN files \cup {target}
                     ELSE files \ {target}
         /\ IF fetched = "raised"
            THEN Fail("TransportError") /\ UNCHANGED package
            ELSE /\ package' = target
                 /\ IF fetched = "missing"
                    THEN Fail("DownloadFailed")
                    ELSE IF bail_skip_install(args)
                    THEN Return("DownloadedNotInstalled")
                    ELSE pc' = "install_update" /\ UNCHANGED <<outcome, exit_code>>
    /\ UNCHANGED <<servers_seen, config, args, token, subscription, server_xml, server,
                   download, downloads, download_os, download_release,
                   new_server_info, start, previous>>

(***************************************************************************)
(* install_update                                                          *)
(***************************************************************************)
\* variant: the first installer found on the host is run
installer_for_first_found(pkg, dpkg_exists, rpm_exists) ==
    IF dpkg_exists THEN DPKG_EXECUTABLE
    ELSE IF rpm_exists THEN RPM_EXECUTABLE
    ELSE Nil

\* the installer install_update runs for a package, Nil when neither branch
\* is taken
installer_for(pkg, dpkg_exists, rpm_exists) ==
    LET package_ext == splitext_ext(pkg) IN
    IF lower(package_ext) = str_deb /\ dpkg_exists THEN DPKG_EXECUTABLE
    ELSE IF lower(package_ext) = str_rpm /\ rpm_exists THEN RPM_EXECUTABLE
    ELSE Nil

\* the os.path.exists tests install_update evaluates for a package: the
\* executable is looked for only after the extension matched
executable_probes(pkg, dpkg_exists, rpm_exists) ==
    LET package_ext == splitext_ext(pkg) IN
    IF lower(package_ext) = str_deb
    THEN << Call("exists", DPKG_EXECUTABLE, dpkg_exists) >>
    ELSE IF lower(package_ext) = str_rpm
    THEN << Call("exists", RPM_EXECUTABLE, rpm_exists) >>
    ELSE <<>>

\* variant: the installer's status is ignored
install_completed_unchecked(status) == TRUE

\* subprocess.check_output raises CalledProcessError on a non-zero status
install_completed(status) == status = 0

\* the platform test at the head of install_update
is_linux(cfg) == lower(cfg.system_os) = str_linux

main_install_update ==
    /\ pc = "install_update"
    /\ \E dpkg_exists \in BOOLEAN, rpm_exists \in BOOLEAN, status \in {0, 1} :
         LET installer == installer_for(package, dpkg_exists, rpm_exists)
             probes == executable_probes(package, dpkg_exists, rpm_exists)
         IN
         IF ~ is_linux(config)
         THEN Fail("UnsupportedInstallTarget") /\ UNCHANGED calls
         ELSE IF installer = Nil
         THEN Fail("InstallFailed") /\ calls' = calls \o probes
         ELSE /\ calls' = calls \o probes
                                \o << Call(installer, package, status) >>
              /\ IF ~ install_completed(status)
                 THEN Fail("InstallFailed")
                 ELSE pc' = "sleep" /\ UNCHANGED <<outcome, exit_code>>
    /\ UNCHANGED <<servers_seen, config, args, token, subscription, server_xml, server,
                   download, package, files, downloads, download_os,
                   download_release, new_server_info, start, previous>>

\* variant: the pause is a poll loop that may wait again
main_sleep_polls ==
    /\ pc = "sleep"
    /\ calls' = Append(calls, Call("sleep", GraceSeconds, "slept"))
    /\ pc' \in {"sleep", "verify"}
    /\ UNCHANGED <<servers_seen, config, args, token, subscription, server_xml,
                   server, download, package, files, downloads, download_os,
                   download_release, new_server_info, start, previous, outcome,
                   exit_code>>

\* main: the pause before the server is asked again
main_sleep ==
    /\ pc = "sleep"
    /\ calls' = Append(calls, Call("sleep", GraceSeconds, "slept"))
    /\ pc' = "verify"
    /\ UNCHANGED <<servers_seen, config, args, token, subscription, server_xml, server,
                   download, package, files, downloads, download_os,
                   download_release, new_server_info, start, previous, outcome,
                   exit_code>>

\* variant: the package is removed whatever remove_completed is
remove_package_always(cfg) == TRUE

\* the package is removed after a verified install
remove_package(cfg) == cfg.remove_completed

\* variant: the install counts as verified when no newer version is left
install_verified_not_newer(new_info, dl) ==
    ~ has_newer_version(new_info.version, dl.version)

\* the test that the install took effect
install_verified(new_info, dl) == new_info.version = dl.version

\* main: the second get_server_info, the version test and the clean-up
main_verify ==
    /\ pc = "verify"
    /\ \E raised \in BOOLEAN, server_resp_xml \in Inventories :
         LET i == find_server(server_resp_xml, config.client, 1)
             asked == Call("servers", token,
                           IF raised THEN "raised" ELSE "answered")
         IN
         IF raised
         THEN /\ Fail("TransportError")
              /\ calls' = Append(calls, asked)
              /\ servers_seen' = <<>>
              /\ UNCHANGED <<args, new_server_info, files>>
         ELSE IF i = 0
         THEN /\ Fail("ServerNotFound")
              /\ calls' = Append(calls, asked)
              /\ servers_seen' = loop_seen(server_resp_xml, i)
              /\ UNCHANGED <<args, new_server_info, files>>
         ELSE /\ servers_seen' = loop_seen(server_resp_xml, i)
              /\ args' = [args EXCEPT !.skip_install =
                            owner_skip_install(server_resp_xml[i], @)]
              /\ new_server_info' = server_info(server_resp_xml[i])
              /\ IF ~ install_verified(server_info(server_resp_xml[i]), download)
                 THEN /\ Fail("DivergedFailure")
                      /\ calls' = Append(calls, asked)
                      /\ UNCHANGED files
                 ELSE /\ Return("Converged")
                      /\ IF remove_package(config)
                         THEN /\ files' = files \ {package}
                              /\ calls' = calls \o << asked,
                                            Call("remove", package, "removed") >>
                         ELSE /\ calls' = Append(calls, asked)
                              /\ UNCHANGED files
    /\ UNCHANGED <<config, token, subscription, server_xml, server, download,
                   package, downloads, download_os, download_release, start, previous>>

Next ==
    \/ main_get_token
    \/ main_get_server_info
    \/ main_get_download_info
    \/ main_has_newer_version
    \/ main_download_update
    \/ main_install_update
    \/ main_sleep
    \/ main_verify

Spec == Init /\ [][Next]_vars

\* the runs followed to their end: those of a configuration without
\* plex_pass and with remove_completed, a package of an earlier run in the
\* download folder
InitFair ==
    /\ Init
    /\ ~ config.plex_pass
    /\ config.remove_completed
    /\ files = {StalePackage}

\* every call main() makes returns or raises: a run that can take a step
\* takes one
FairSpec == InitFair /\ [][Next]_vars /\ WF_vars(Next)

(***************************************************************************)
(* Two runs in immediate succession: after a run that ended up-to-date the *)
(* script is started once more, with the same configuration file and       *)
(* arguments, on the folder as the first run left it.                      *)
(***************************************************************************)
run_again ==
    /\ pc = "done"
    /\ outcome = "UpToDate"
    /\ previous = None
    /\ previous' = [ outcome |-> outcome, exit_code |-> exit_code,
                     files |-> start.files, subscription |-> subscription,
                     server_xml |-> server_xml, downloads |-> downloads ]
    /\ pc' = "get_token"
    /\ config' = start.config
    /\ args' = start.args
    /\ token' = Nil
    /\ subscription' = Unset
    /\ server_xml' = None
    /\ servers_seen' = <<>>
    /\ server' = None
    /\ downloads' = <<>>
    /\ download_os' = None
    /\ download_release' = None
    /\ download' = None
    /\ package' = <<>>
    /\ new_server_info' = None
    /\ start' = [ config |-> start.config, args |-> start.args, files |-> files ]
    /\ calls' = <<>>
    /\ outcome' = Nil
    /\ exit_code' = Running
    /\ UNCHANGED files

NextTwice ==
    \/ main_get_token
    \/ main_get_server_info
    \/ main_get_download_info
    \/ main_has_newer_version
    \/ main_download_update
    \/ main_install_update
    \/ main_sleep
    \/ main_verify
    \/ run_again

SpecTwice == Init /\ [][NextTwice]_vars

(***************************************************************************)
(* has_newer_version on its own: main() at the comparison, for a wider     *)
(* set of version strings than the runs above are given                    *)
(***************************************************************************)
v1_9_0_1 == <<"1",".","9",".","0",".","1">>
v2       == <<"2">>
v_empty  == <<>>
AllVersions ==
    {v1_9, v1_9_0, v1_9_1, v1_10_0, v1_9_0_1, v2, v1_x, v_empty}

InitVersions ==
    \E sv \in AllVersions, dv \in AllVersions :
      /\ pc = "has_newer_version"
      /\ config = [ client |-> ClientId, folder |-> Folder, plex_pass |-> FALSE,
                    system_type |-> <<"n","a","s">>,
                    system_os |-> <<"L","i","n","u","x">>,
                    has_system_build |-> FALSE, system_build |-> <<>>,
                    remove_completed |-> FALSE ]
      /\ args \in Args
      /\ token = "tok"
      /\ subscription = Unset
      /\ server_xml = [ machineIdentifier |-> ClientId, owned |-> "1",
                        updatedAt |-> 1, version |-> sv ]
      /\ servers_seen = <<>>
      /\ server = server_info(server_xml)
      /\ downloads = << [ key |-> <<"n","a","s">>, value |-> <<os_Linux(dv)>> ] >>
      /\ download_os = os_Linux(dv).value
      /\ download_release = rel_deb
      /\ download = download_info(download_os, download_release)
      /\ package = <<>>
      /\ new_server_info = None
      /\ files = {}
      /\ start = [ config |-> config, args |-> args, files |-> files ]
      /\ previous = None
      /\ calls = << Call("sign_in", ClientId, "answered"),
                    Call("servers", token, "answered"),
                    Call("downloads", download_params(FALSE), "answered") >>
      /\ outcome = Nil
      /\ exit_code = Running

NextVersions == main_has_newer_version

SpecVersions == InitVersions /\ [][NextVersions]_vars

(***************************************************************************)
(* Vocabulary of the properties                                            *)
(***************************************************************************)
Installers == {DPKG_EXECUTABLE, RPM_EXECUTABLE}
CallsOf(ops) == { i \in DOMAIN calls : calls[i].op \in ops }
Ended == pc = "done"

\* the comparison of main() has been made
Compared == download # None /\ pc # "has_newer_version"
\* what the comparison answered, once Compared
SaidNewer == outcome # "UpToDate"

\* the fetch left a package in the download folder
Downloaded == \E i \in CallsOf({"retrieve"}) : calls[i].result = "written"
InstallerSucceeded == \E i \in CallsOf(Installers) : calls[i].result = 0
InstallerFailed == \E i \in CallsOf(Installers) : calls[i].result # 0
PremiumRequested ==
    \E i \in CallsOf({"downloads"}) : calls[i].arg = str_plexpass

SuccessOutcomes ==
    {"UpToDate", "CheckOnlyStop", "DownloadedNotInstalled", "Converged"}
FailureOutcomes ==
    {"AuthRejected", "ServerNotFound", "UnknownSystemType", "UnknownSystemOs",
     "UnknownSystemBuild", "DownloadFailed", "UnsupportedInstallTarget",
     "InstallFailed", "DivergedFailure"}

\* a version component read as a decimal number
DigitChars == <<"0","1","2","3","4","5","6","7","8","9">>
IsDigit(c) == \E d \in 1..10 : DigitChars[d] = c
IsNumeric(component) ==
    Len(component) > 0 /\ \A i \in 1..Len(component) : IsDigit(component[i])
RECURSIVE IntOf(_)
IntOf(component) ==
    IF component = <<>> THEN 0
    ELSE 10 * IntOf(SubSeq(component, 1, Len(component) - 1))
         + (CHOOSE d \in 1..10 : DigitChars[d] = component[Len(component)]) - 1

\* versions of equally many components, all numeric
NumericSameLength(a, b) ==
    /\ Len(split(a)) = Len(split(b))
    /\ \A i \in 1..Len(split(a)) : IsNumeric(split(a)[i]) /\ IsNumeric(split(b)[i])
\* b is greater than a, components compared left to right as integers
IntegerGreater(b, a) ==
    \E i \in 1..Len(split(a)) :
        /\ IntOf(split(b)[i]) > IntOf(split(a)[i])
        /\ \A j \in 1..(i - 1) : IntOf(split(b)[j]) = IntOf(split(a)[j])

\* two characters that are the same letter in either case
SameLetter(a, b) ==
    a = b \/ \E k \in 1..Len(UpperChars) : {a, b} = {UpperChars[k], LowerChars[k]}
\* a literal pattern matches at the start of a string, case ignored
MatchesIgnoringCase(pattern, string) ==
    /\ Len(pattern) <= Len(string)
    /\ \A i \in 1..Len(pattern) : SameLetter(pattern[i], string[i])
EqualIgnoringCase(a, b) ==
    Len(a) = Len(b) /\ \A i \in 1..Len(a) : SameLetter(a[i], b[i])

\* the account's subscription exists, is active and lists the premium feature
Entitled(sub) ==
    sub \notin {None, Unset} /\ sub.active /\ str_pass \in sub.features

(***************************************************************************)
(* C1: for version strings with equally many components, all numeric,      *)
(* has_newer_version answers true exactly when the download version is     *)
(* greater than the server version, components compared as integers.       *)
(* The code compares the components as strings, so this fails.             *)
(***************************************************************************)
C1_NewerIffIntegerGreater ==
    (Compared /\ NumericSameLength(server.version, download.version))
        => (SaidNewer <=> IntegerGreater(download.version, server.version))

(***************************************************************************)
(* C2: the downloads request asks for the plexpass channel exactly when    *)
(* plex_pass was configured and the subscription exists, is active and     *)
(* lists 'pass'; the flag never goes from false to true, and from          *)
(* get_token on it keeps the value get_token left.                         *)
(***************************************************************************)
C2_PremiumOnlyWhenEntitled ==
    /\ \A i \in CallsOf({"downloads"}) :
          (calls[i].arg = str_plexpass)
              <=> (start.config.plex_pass /\ Entitled(subscription))
    /\ config.plex_pass => start.config.plex_pass
    /\ token # Nil =>
          (config.plex_pass <=> (start.config.plex_pass /\ Entitled(subscription)))

C2_Witness ==
    PremiumRequested /\ start.config.plex_pass /\ Entitled(subscription)

(***************************************************************************)
(* C3: when the located server is reported as not owned, no installer is   *)
(* ever invoked, whatever skip_install was; the run goes on to the         *)
(* downloads request and the comparison, and when the comparison says      *)
(* newer and check_only is off it fetches the package and, the package     *)
(* fetched, ends as 'downloaded, not installed'.                           *)
(***************************************************************************)
NotOwned == server_xml # None /\ server_xml.owned = "0"

C3_NotOwnedNeverInstalls ==
    NotOwned =>
        /\ CallsOf(Installers) = {}
        /\ pc \notin {"install_update", "sleep", "verify"}
        /\ Ended => CallsOf({"downloads"}) # {}
        /\ (Ended /\ download # None) => Compared
        /\ (Ended /\ Compared /\ SaidNewer /\ ~ args.check_only) =>
              /\ CallsOf({"retrieve"}) # {}
              /\ Downloaded =>
                    /\ outcome = "DownloadedNotInstalled"
                    /\ exit_code = 0
                    /\ package \in files

C3_Witness ==
    /\ NotOwned
    /\ ~ start.args.skip_install
    /\ outcome = "DownloadedNotInstalled"

(***************************************************************************)
(* C4: when the comparison says newer and the run is check-only, the run   *)
(* ends with status 0 right after the comparison: the download folder is   *)
(* as it was found, and the only external operations were the sign-in,     *)
(* one server query and the downloads request.                             *)
(***************************************************************************)
C4_CheckOnlyNoSideEffects ==
    (Compared /\ has_newer_version(server.version, download.version)
              /\ start.args.check_only) =>
        /\ Ended
        /\ outcome = "CheckOnlyStop"
        /\ exit_code = 0
        /\ files = start.files
        /\ package = <<>>
        /\ [ i \in DOMAIN calls |-> calls[i].op ]
              = <<"sign_in", "servers", "downloads">>

C4_Witness ==
    outcome = "CheckOnlyStop" /\ start.files # {}

(***************************************************************************)
(* C5: after an installer run that succeeded and a second server query     *)
(* that returned a version, the run is Converged exactly when that version *)
(* string equals download['version']; otherwise it is DivergedFailure with *)
(* a non-zero status and the package still in the folder, whatever         *)
(* remove_completed is.                                                    *)
(***************************************************************************)
C5_ConvergedIffSameVersion ==
    (Ended /\ InstallerSucceeded /\ new_server_info # None) =>
        /\ (outcome = "Converged")
              <=> (new_server_info.version = download.version)
        /\ (new_server_info.version # download.version) =>
              /\ outcome = "DivergedFailure"
              /\ exit_code # 0
              /\ package \in files

C5_Witness ==
    outcome = "DivergedFailure" /\ config.remove_completed /\ package \in files

(***************************************************************************)
(* C6: when the installer exits non-zero the run ends at once as           *)
(* InstallFailed with a non-zero status: the server is not asked again,    *)
(* nothing is removed and the package is still in the folder.              *)
(***************************************************************************)
C6_InstallFailedKeepsPackage ==
    InstallerFailed =>
        /\ Ended
        /\ outcome = "InstallFailed"
        /\ exit_code # 0
        /\ Cardinality(CallsOf({"servers"})) = 1
        /\ calls[Len(calls)].op \in Installers
        /\ calls[Len(calls)].arg = package
        /\ package \in files

C6_Witness ==
    InstallerFailed /\ outcome = "InstallFailed" /\ config.remove_completed

(***************************************************************************)
(* C7: in every final state after a successful download the package is     *)
(* gone exactly when the run Converged and remove_completed is true.       *)
(***************************************************************************)
C7_RemovedOnlyWhenConvergedAndConfigured ==
    (Ended /\ Downloaded) =>
        (package \notin files
            <=> (outcome = "Converged" /\ config.remove_completed))

C7_Witness ==
    outcome = "Converged" /\ config.remove_completed /\ package \notin files

(***************************************************************************)
(* C8: the process status is 0 exactly for the outcomes up-to-date,        *)
(* check-only-stop, downloaded-not-installed and converged, and non-zero   *)
(* for every failure.                                                      *)
(***************************************************************************)
C8_ExitCodeZeroIffSuccess ==
    /\ Ended => ((exit_code = 0) <=> (outcome \in SuccessOutcomes))
    /\ (Ended /\ outcome \in FailureOutcomes) => exit_code # 0
    /\ ~ Ended => (exit_code = Running /\ outcome = Nil)

C8_Witness ==
    Ended /\ outcome = "UnknownSystemBuild" /\ exit_code = 1

(***************************************************************************)
(* C9: when a release is resolved, the OS entry is the first one in        *)
(* catalog order whose identifier system_os matches, case ignored, and the *)
(* release is the first one of that entry whose label system_build         *)
(* matches, case ignored, or the first of the list when system_build is    *)
(* not configured; when no identifier or no label matches the run ends as  *)
(* UnknownSystemOs / UnknownSystemBuild with nothing compared or fetched.  *)
(***************************************************************************)
CatalogRead ==
    /\ downloads # <<>>
    /\ ~ has_key(downloads, str_error)
    /\ has_key(downloads, lower(config.system_type))
SystemsOfType == get(downloads, lower(config.system_type))
FirstOs(o) ==
    /\ MatchesIgnoringCase(config.system_os, SystemsOfType[o].key)
    /\ \A j \in 1..(o - 1) :
          ~ MatchesIgnoringCase(config.system_os, SystemsOfType[j].key)
FirstRelease(releases, r) ==
    IF config.has_system_build
    THEN /\ MatchesIgnoringCase(config.system_build, releases[r].label)
         /\ \A j \in 1..(r - 1) :
               ~ MatchesIgnoringCase(config.system_build, releases[j].label)
    ELSE r = 1
NothingComparedOrFetched ==
    download = None /\ CallsOf({"retrieve", "remove"} \cup Installers) = {}

C9_FirstMatchingRelease ==
    /\ download # None =>
          /\ CatalogRead
          /\ \E o \in 1..Len(SystemsOfType) :
                /\ FirstOs(o)
                /\ download_os = SystemsOfType[o].value
                /\ \E r \in 1..Len(download_os.releases) :
                      /\ FirstRelease(download_os.releases, r)
                      /\ download_release = download_os.releases[r]
                      /\ download.link = download_release.url
    /\ (Ended /\ CatalogRead) =>
          /\ (\A o \in 1..Len(SystemsOfType) : ~ FirstOs(o)) =>
                (outcome = "UnknownSystemOs" /\ NothingComparedOrFetched)
          /\ \A o \in 1..Len(SystemsOfType) :
                ( /\ FirstOs(o)
                  /\ config.has_system_build
                  /\ \A r \in 1..Len(SystemsOfType[o].value.releases) :
                        ~ FirstRelease(SystemsOfType[o].value.releases, r) )
                => (outcome = "UnknownSystemBuild" /\ NothingComparedOrFetched)

C9_Witness ==
    /\ download # None
    /\ config.has_system_build
    /\ Len(SystemsOfType) > 1
    /\ download_release = download_os.releases[2]
    /\ config.system_os # download_os.name

(***************************************************************************)
(* C10: the configured system_type is accepted exactly when it equals some *)
(* key of the catalog, case ignored on both sides.  The code lower-cases   *)
(* only the configured value, so a key with an upper-case letter is never  *)
(* matched.                                                                *)
(***************************************************************************)
C10_SystemTypeIgnoringCase ==
    (Ended /\ downloads # <<>> /\ ~ has_key(downloads, str_error)) =>
        ( (outcome # "UnknownSystemType")
            <=> \E i \in 1..Len(downloads) :
                   EqualIgnoringCase(downloads[i].key, config.system_type) )

(***************************************************************************)
(* C11: when the server version or the release version is empty or has a   *)
(* component that is not a number, the comparison ends the run with a      *)
(* MalformedVersion error: the run is neither up-to-date nor does it go on *)
(* to the download.  The code has no such test: it compares the components *)
(* as strings and goes on with the answer.                                 *)
(***************************************************************************)
Malformed(version) ==
    \E i \in 1..Len(split(version)) : ~ IsNumeric(split(version)[i])

C11_MalformedVersionStops ==
    (Compared /\ (Malformed(server.version) \/ Malformed(download.version)))
        => /\ Ended
           /\ outcome = "MalformedVersion"
           /\ exit_code # 0
           /\ CallsOf({"retrieve"} \cup Installers) = {}

(***************************************************************************)
(* C12: when the two versions have different numbers of components and     *)
(* every component of the shorter equals the corresponding component of    *)
(* the longer, has_newer_version answers false, whichever side is shorter. *)
(***************************************************************************)
SharedComponentsEqual(a, b) ==
    \A i \in 1..Len(split(a)) :
        i <= Len(split(b)) => split(a)[i] = split(b)[i]

C12_ExhaustionIsNotNewer ==
    ( /\ Compared
      /\ Len(split(server.version)) # Len(split(download.version))
      /\ SharedComponentsEqual(server.version, download.version) )
        => (~ SaidNewer /\ outcome = "UpToDate")

C12_Witness ==
    /\ outcome = "UpToDate"
    /\ server.version = v1_9_0
    /\ download.version = v1_9_0_1

(***************************************************************************)
(* C13: when the comparison finds the release not newer than the server,   *)
(* the run ends up-to-date with status 0 and has touched nothing: the      *)
(* folder is as it was found, nothing was removed, fetched or installed.   *)
(* A second run at once, against the same server and catalog, ends         *)
(* up-to-date as well, with the same status, and the folder is still as    *)
(* the first run found it.                                                 *)
(***************************************************************************)
C13_UpToDateIsIdempotent ==
    /\ (Compared /\ ~ has_newer_version(server.version, download.version)) =>
          /\ Ended
          /\ outcome = "UpToDate"
          /\ exit_code = 0
          /\ files = start.files
          /\ package = <<>>
          /\ CallsOf({"remove", "retrieve"} \cup Installers) = {}
    /\ (previous # None /\ Ended) =>
          /\ outcome = previous.outcome
          /\ exit_code = previous.exit_code
          /\ files = previous.files
          /\ CallsOf({"remove", "retrieve"} \cup Installers) = {}

C13_Witness ==
    /\ previous # None
    /\ Ended
    /\ outcome = "UpToDate"
    /\ previous.outcome = "UpToDate"
    /\ files = {StalePackage}

(***************************************************************************)
(* C14: every error ends the run and nothing is tried again: a run that    *)
(* has an outcome has ended, with a non-zero status when the outcome is a  *)
(* failure, and the last external operation it made is the one of the step *)
(* that failed; in any run the sign-in, the downloads request, the fetch   *)
(* and the installer are made at most once and the servers request at most *)
(* twice.                                                                  *)
(***************************************************************************)
LastOp == calls[Len(calls)].op
Requests == {"sign_in", "servers", "downloads", "retrieve"}
Raised(c) == c.op \in Requests /\ c.result = "raised"
Missing(c) == c.op = "retrieve" /\ c.result = "missing"
NonZero(c) == c.op \in Installers /\ c.result # 0
NotThere(c) == c.op = "exists" /\ ~ c.result
\* the external operations after which a run can end with a given failure
LastOpsOf(o) ==
    CASE o = "AuthRejected" -> {"sign_in"}
      [] o = "ServerNotFound" -> {"servers"}
      [] o \in {"DownloadsError", "UnknownSystemType", "UnknownSystemOs",
                "UnknownSystemBuild", "IndexError"} -> {"downloads"}
      [] o = "DownloadFailed" -> {"retrieve"}
      [] o = "UnsupportedInstallTarget" -> {"retrieve"}
      [] o = "InstallFailed" -> {"retrieve", "exists"} \cup Installers
      [] o = "DivergedFailure" -> {"servers"}
      [] o = "TransportError" -> {"sign_in", "servers", "downloads", "retrieve"}

C14_ErrorsAreFatalNoRetry ==
    /\ Cardinality(CallsOf({"sign_in"})) <= 1
    /\ Cardinality(CallsOf({"downloads"})) <= 1
    /\ Cardinality(CallsOf({"retrieve"})) <= 1
    /\ Cardinality(CallsOf(Installers)) <= 1
    /\ Cardinality(CallsOf({"servers"})) <= 2
    /\ outcome # Nil => Ended
    /\ (outcome # Nil /\ outcome \notin SuccessOutcomes) =>
          /\ exit_code # 0
          /\ LastOp \in LastOpsOf(outcome)
          /\ outcome = "TransportError" <=> Raised(calls[Len(calls)])
          /\ outcome = "DownloadFailed" <=> Missing(calls[Len(calls)])
          /\ outcome = "InstallFailed" =>
                \/ NonZero(calls[Len(calls)])
                \/ NotThere(calls[Len(calls)])
                \/ LastOp = "retrieve"
          /\ \A i \in 1..(Len(calls) - 1) :
                ~ (Raised(calls[i]) \/ Missing(calls[i]) \/
                   NonZero(calls[i]) \/ NotThere(calls[i]))

C14_Witness ==
    /\ Ended
    /\ outcome = "DivergedFailure"
    /\ Cardinality(CallsOf({"servers"})) = 2
    /\ Cardinality(CallsOf(Installers)) = 1

(***************************************************************************)
(* C15: the dict get_download_info returns describes one release: its link *)
(* is the URL of the release the build selector chose, its version and     *)
(* date are those of the catalog entry that lists this release (a release  *)
(* object carries a label and a URL; the version and the release date are  *)
(* fields of the OS entry that lists it), no other catalog entry listing a *)
(* release with this URL has another version or date, also when the entry  *)
(* lists several releases; this version is the one in the package file     *)
(* name and the one the server must report after the install.              *)
(***************************************************************************)
\* the OS entries of the catalog that list a release with the given URL
EntriesListing(url) ==
    { e \in UNION { { downloads[s].value[o].value :
                        o \in 1..Len(downloads[s].value) } :
                    s \in { t \in 1..Len(downloads) :
                              downloads[t].key # str_error } } :
        \E r \in 1..Len(e.releases) : e.releases[r].url = url }

C15_ResultDescribesSelectedRelease ==
    /\ download # None =>
          /\ CatalogRead
          /\ \E o \in 1..Len(SystemsOfType) :
                LET entry == SystemsOfType[o].value IN
                /\ FirstOs(o)
                /\ \E r \in 1..Len(entry.releases) :
                      /\ FirstRelease(entry.releases, r)
                      /\ download.link = entry.releases[r].url
                /\ download.version = entry.version
                /\ download.updated = entry.release_date
          /\ \A e \in EntriesListing(download.link) :
                e.version = download.version /\ e.release_date = download.updated
    /\ package # <<>> =>
          package = config.folder \o <<"/">> \o str_pms \o download.version
                       \o splitext_ext(download.link)
    /\ outcome = "Converged" => new_server_info.version = download.version

C15_Witness ==
    /\ download # None
    /\ Len(download_os.releases) > 1
    /\ download.link = download_os.releases[2].url
    /\ \E o \in 1..Len(SystemsOfType) :
          /\ SystemsOfType[o].value.version # download.version
          /\ SystemsOfType[o].value.release_date # download.updated
    /\ outcome = "Converged"

(***************************************************************************)
(* C16: the Installing step runs at most one installer, dpkg only for a    *)
(* package whose extension is .deb and rpm only for one whose extension is *)
(* .rpm; once the step has acted for a platform that is not linux, a       *)
(* package whose extension is neither, or a matching executable that is    *)
(* not on the host, no installer has been run and the run has ended in a   *)
(* failure with a non-zero status.                                         *)
(***************************************************************************)
InstallActed == Downloaded /\ ~ args.skip_install /\ pc # "install_update"
PackageIs(ext) == EqualIgnoringCase(splitext_ext(package), ext)
ExecutableAbsent == \E i \in CallsOf({"exists"}) : ~ calls[i].result
NoInstallerAvailable ==
    \/ ~ EqualIgnoringCase(config.system_os, str_linux)
    \/ ~ PackageIs(str_deb) /\ ~ PackageIs(str_rpm)
    \/ ExecutableAbsent

C16_OneInstallerByExtension ==
    /\ Cardinality(CallsOf(Installers)) <= 1
    /\ \A i \in CallsOf(Installers) :
          /\ calls[i].arg = package
          /\ calls[i].op = DPKG_EXECUTABLE => PackageIs(str_deb)
          /\ calls[i].op = RPM_EXECUTABLE => PackageIs(str_rpm)
          /\ calls[i - 1] = Call("exists", calls[i].op, TRUE)
    /\ \A i \in CallsOf({"exists"}) :
          /\ calls[i].arg = DPKG_EXECUTABLE => PackageIs(str_deb)
          /\ calls[i].arg = RPM_EXECUTABLE => PackageIs(str_rpm)
    /\ (InstallActed /\ NoInstallerAvailable) =>
          /\ CallsOf(Installers) = {}
          /\ Ended
          /\ exit_code # 0
          /\ outcome \in {"UnsupportedInstallTarget", "InstallFailed"}
    /\ (InstallActed /\ ~ NoInstallerAvailable) =>
          Cardinality(CallsOf(Installers)) = 1

C16_Witness ==
    /\ InstallActed
    /\ PackageIs(str_deb)
    /\ ExecutableAbsent
    /\ outcome = "InstallFailed"

(***************************************************************************)
(* C17: what get_server_info returns is the state of the first server of   *)
(* the inventory, in inventory order, whose machineIdentifier is exactly   *)
(* the configured client: the loop stopped at that server and no server    *)
(* before it has the identifier; when no server of the inventory has it    *)
(* the run ends with ServerNotFound, and when that is the answer to the    *)
(* first query the downloads catalog has not been requested.               *)
(***************************************************************************)
IsClient(s) == s.machineIdentifier = config.client
\* the loop stopped at the first server with the configured identifier
StoppedAtFirstClient ==
    /\ servers_seen # <<>>
    /\ IsClient(servers_seen[Len(servers_seen)])
    /\ \A j \in 1..(Len(servers_seen) - 1) : ~ IsClient(servers_seen[j])
StateOf(s) == [ updated |-> s.updatedAt, version |-> s.version ]
ServersAnswered ==
    calls # <<>> /\ LastOp \in {"servers", "remove"} /\
    \E i \in CallsOf({"servers"}) :
        /\ calls[i].result = "answered"
        /\ \A j \in (i + 1)..Len(calls) : calls[j].op = "remove"

C17_FirstServerWithClientId ==
    /\ server # None =>
          /\ IsClient(server_xml)
          /\ server = StateOf(server_xml)
    /\ pc = "get_download_info" =>
          /\ StoppedAtFirstClient
          /\ server_xml = servers_seen[Len(servers_seen)]
          /\ server # None
    /\ new_server_info # None =>
          /\ StoppedAtFirstClient
          /\ new_server_info = StateOf(servers_seen[Len(servers_seen)])
    /\ ServersAnswered =>
          ( (\A j \in 1..Len(servers_seen) : ~ IsClient(servers_seen[j]))
                <=> outcome = "ServerNotFound" )
    /\ outcome = "ServerNotFound" =>
          /\ Ended
          /\ exit_code # 0
          /\ ServersAnswered
          /\ Cardinality(CallsOf({"servers"})) = 1 =>
                (server = None /\ downloads = <<>> /\ CallsOf({"downloads"}) = {})
          /\ Cardinality(CallsOf({"servers"})) = 2 => new_server_info = None

C17_Witness ==
    /\ pc = "get_download_info"
    /\ Len(servers_seen) = 2
    /\ ~ IsClient(servers_seen[1])
    /\ server = StateOf(servers_seen[2])

(***************************************************************************)
(* C18: the external operations of a run follow the pipeline order, none   *)
(* skipped: sign-in, servers query, downloads request, fetch, installer,   *)
(* grace wait, servers query. The servers query follows an answered        *)
(* sign-in, the downloads request an answered servers query; files are     *)
(* removed or fetched only after the comparison said newer (and not in a   *)
(* check_only run); a stale file at the target path is removed right       *)
(* before the fetch to that path; the installer runs only on a package the *)
(* fetch left in place; the wait follows an installer that ended with      *)
(* status 0 and the second servers query follows the wait.                 *)
(***************************************************************************)
Pipeline == << "sign_in", "servers", "downloads", "retrieve", "install",
               "sleep", "servers" >>
StepOf(c) == IF c.op \in Installers THEN "install" ELSE c.op
IsStep(c) == c.op \notin {"exists", "remove"}
Steps == SelectSeq(calls, IsStep)
Answered(c) == c.op \in Requests /\ c.result = "answered"
Written(c) == c.op = "retrieve" /\ c.result = "written"
Exited0(c) == c.op \in Installers /\ c.result = 0

C18_PipelineOrder ==
    /\ Len(Steps) <= Len(Pipeline)
    /\ \A k \in 1..Len(Steps) : StepOf(Steps[k]) = Pipeline[k]
    /\ \A k \in 2..Len(Steps) :
          CASE Pipeline[k] \in {"servers", "downloads"} /\ k <= 3 ->
                   Answered(Steps[k - 1])
            [] Pipeline[k] = "retrieve" ->
                   /\ Answered(Steps[k - 1])
                   /\ Compared
                   /\ new_version_available(server, download)
                   /\ ~ start.args.check_only
            [] Pipeline[k] = "install" ->
                   /\ Written(Steps[k - 1])
                   /\ Steps[k].arg = Steps[k - 1].arg
                   /\ ~ start.args.skip_install
                   /\ server_xml.owned # "0"
            [] Pipeline[k] = "sleep" -> Exited0(Steps[k - 1])
            [] OTHER -> Steps[k - 1].op = "sleep" /\ Exited0(Steps[k - 2])
    /\ \A i \in CallsOf({"retrieve"}) :
          /\ calls[i].arg \in start.files =>
                (i > 1 /\ calls[i - 1] = Call("remove", calls[i].arg, "removed"))
          /\ \A j \in CallsOf({"remove"}) :
                j < i => (j = i - 1 /\ calls[j].arg = calls[i].arg
                          /\ calls[i].arg \in start.files)
    /\ \A j \in CallsOf({"remove"}) :
          \E i \in CallsOf({"retrieve"}) : j = i - 1 \/ j > i
    /\ \A i \in CallsOf({"exists"}) :
          i > 1 /\ Written(calls[i - 1])
    /\ pc = "get_server_info" => token # Nil
    /\ pc = "get_download_info" => server # None
    /\ pc = "has_newer_version" => download # None
    /\ pc = "download_update" => new_version_available(server, download)
    /\ pc = "install_update" => (Downloaded /\ package \in files)
    /\ pc = "sleep" => InstallerSucceeded
    /\ pc = "verify" => (InstallerSucceeded /\ calls[Len(calls)].op = "sleep")

C18_Witness ==
    /\ Len(Steps) = Len(Pipeline)
    /\ \E i \in CallsOf({"retrieve"}) : calls[i].arg \in start.files
    /\ outcome = "Converged"

(***************************************************************************)
(* C19: no package is fetched and no installer is run for a release whose  *)
(* version is not greater than the server's, components compared as        *)
(* integers (both versions numeric with equally many components): a run    *)
(* never installs an equal or older version. The code compares the         *)
(* components as strings, so 1.9.0 is fetched and installed over 1.10.0.   *)
(***************************************************************************)
C19_NeverInstallsEqualOrOlder ==
    ( /\ Compared
      /\ NumericSameLength(server.version, download.version)
      /\ ~ IntegerGreater(download.version, server.version) )
        => CallsOf({"retrieve"} \cup Installers) = {}

(***************************************************************************)
(* C20: every run ends. Each step of main() moves it forward in the        *)
(* pipeline and no step is taken after the end; the comparison makes at    *)
(* most min(len(server components), len(download components)) + 1 calls of *)
(* compare_versions; the grace wait is made at most once; a run has an     *)
(* outcome exactly when it has ended, one of up-to-date, check-only stop,  *)
(* downloaded-not-installed, converged or a terminal failure, and the      *)
(* outcome never changes.                                                  *)
(***************************************************************************)
Rank(p) ==
    CASE p = "get_token" -> 8
      [] p = "get_server_info" -> 7
      [] p = "get_download_info" -> 6
      [] p = "has_newer_version" -> 5
      [] p = "download_update" -> 4
      [] p = "install_update" -> 3
      [] p = "sleep" -> 2
      [] p = "verify" -> 1
      [] p = "done" -> 0
Min(a, b) == IF a < b THEN a ELSE b
TerminalFailures ==
    FailureOutcomes \cup {"DownloadsError", "IndexError", "TransportError"}
ComparisonBounded ==
    Compared =>
        LET s_version == split(server.version)
            d_version == split(download.version)
        IN  compare_versions_calls(s_version, d_version)
                <= Min(Len(s_version), Len(d_version)) + 1
OneOutcome ==
    /\ Ended <=> outcome # Nil
    /\ Ended => outcome \in SuccessOutcomes \cup TerminalFailures
    /\ Ended <=> exit_code # Running

C20_EveryRunTerminates ==
    /\ <>Ended
    /\ [][Rank(pc') < Rank(pc) /\ outcome = Nil]_vars
    /\ [](Cardinality(CallsOf({"sleep"})) <= 1)
    /\ []ComparisonBounded
    /\ []OneOutcome

C20_Witness ==
    /\ Ended
    /\ outcome = "Converged"
    /\ Cardinality(CallsOf({"sleep"})) = 1
    /\ compare_versions_calls(split(server.version), split(download.version)) > 1

====
